---- MODULE Spec2Model ----
(***************************************************************************)
(* wikisnap: conversion of a parsed Wikipedia page to Markdown, the batch  *)
(* loop that archives the converted pages, and diffcheck's reading of the  *)
(* frontmatter wikisnap writes.                                            *)
(*                                                                         *)
(* A string is a sequence of units.  A unit is one character (" ", "\n",   *)
(* ":", "[", ...) or, for brevity, a run of letters written as one word    *)
(* ("References"), which no operation modelled here looks inside.  The     *)
(* titles given to sanitize_title are spelled character by character.      *)
(***************************************************************************)
EXTENDS Integers, Sequences, FiniteSets, TLC

VARIABLES
    pc,             \* position of the running program
    soup,           \* html_to_markdown: the parsed page
    csv_title,      \* html_to_markdown: the caller's title
    url,            \* html_to_markdown: the caller's url
    download_date,  \* html_to_markdown: the caller's date
    idx,            \* html_to_markdown: number of content.children already visited
    ignore_section, \* html_to_markdown: the section filter's flag
    lines,          \* html_to_markdown / convert_list: the lines produced so far
    markdown,       \* html_to_markdown: the returned text (None on failure)
    parsed,         \* diffcheck.parse_frontmatter: the returned pair
    node,           \* convert_inline / convert_list: the node being rendered
    rendered,       \* convert_inline: the returned string
    entries,        \* main: the parsed CSV rows
    pos,            \* main: number of entries the loop has taken
    converted,      \* main: the converted counter
    files,          \* main: the temporary directory, filename -> content
    written,        \* main: the successful writes, in order
    stderr,         \* main: the error messages printed, in order
    archive         \* main: the names added to the archive

vars == <<pc, soup, csv_title, url, download_date, idx, ignore_section, lines, markdown, parsed,
          node, rendered, entries, pos, converted, files, written, stderr, archive>>

\* A value that may be None is a sequence of no value (None) or of one value.
None == <<>>
Some(x) == <<x>>

----------------------------------------------------------------------------
(* Python's str operations, on sequences of units                          *)

IsSpace(c) == c \in {" ", "\n", "\t"}

RECURSIVE lstrip(_)
lstrip(s) == IF s = <<>> THEN s
             ELSE IF IsSpace(Head(s)) THEN lstrip(Tail(s)) ELSE s

RECURSIVE rstrip(_)
rstrip(s) == IF s = <<>> THEN s
             ELSE IF IsSpace(s[Len(s)]) THEN rstrip(SubSeq(s, 1, Len(s) - 1)) ELSE s

strip(s) == rstrip(lstrip(s))

RECURSIVE rstrip_newlines(_)
rstrip_newlines(s) == IF s = <<>> THEN s
                      ELSE IF s[Len(s)] = "\n"
                           THEN rstrip_newlines(SubSeq(s, 1, Len(s) - 1)) ELSE s

\* sep.join(parts)
RECURSIVE join(_, _)
join(sep, parts) == IF parts = <<>> THEN <<>>
                    ELSE IF Len(parts) = 1 THEN parts[1]
                    ELSE parts[1] \o sep \o join(sep, Tail(parts))

\* index of the first unit c in s, 0 when there is none
find(s, c) == IF \E k \in 1..Len(s) : s[k] = c
              THEN CHOOSE k \in 1..Len(s) : s[k] = c /\ \A j \in 1..(k - 1) : s[j] # c
              ELSE 0

\* s.splitlines()
RECURSIVE splitlines(_)
splitlines(s) == IF s = <<>> THEN <<>>
                 ELSE LET k == find(s, "\n")
                      IN IF k = 0 THEN <<s>>
                         ELSE <<SubSeq(s, 1, k - 1)>> \o splitlines(SubSeq(s, k + 1, Len(s)))

\* s.split(":", 1), for an s that holds a ":"
split_colon_once(s) == LET k == find(s, ":")
                       IN <<SubSeq(s, 1, k - 1), SubSeq(s, k + 1, Len(s))>>

\* n copies of the unit c
RECURSIVE repeat(_, _)
repeat(c, n) == IF n <= 0 THEN <<>> ELSE <<c>> \o repeat(c, n - 1)

\* the unit standing for the grave accent, which a string of this module cannot spell
backtick == "BACKTICK"
fence == <<backtick, backtick, backtick>>

Min(a, b) == IF a < b THEN a ELSE b
Max(a, b) == IF a > b THEN a ELSE b

----------------------------------------------------------------------------
(* The parsed tree (bs4).  An attribute that may be missing is a sequence   *)
(* of no value or of one value: node.get("href") is None iff href = <<>>.  *)

Str(s) == [kind |-> "NavigableString", name |-> "", class |-> {}, href |-> <<>>,
           id |-> <<>>, string |-> s, children |-> <<>>]

Tag(name, class, children) ==
    [kind |-> "Tag", name |-> name, class |-> class, href |-> <<>>,
     id |-> <<>>, string |-> <<>>, children |-> children]

IsTag(n) == n.kind = "Tag"
IsNavigableString(n) == n.kind = "NavigableString"

\* node.get("class", []) and the other attributes
Link(href, children) == [Tag("a", {}, children) EXCEPT !.href = href]
TagId(name, id, children) == [Tag(name, {}, children) EXCEPT !.id = <<id>>]

\* all nodes below n, in document order
RECURSIVE descendants(_)
RECURSIVE descendants_of_all(_)
descendants(n) == descendants_of_all(n.children)
descendants_of_all(ns) ==
    IF ns = <<>> THEN <<>>
    ELSE <<Head(ns)>> \o descendants(Head(ns)) \o descendants_of_all(Tail(ns))

\* soup.find(name): the first tag of that name in document order, or None
soup_find(root, name) ==
    LET hits == SelectSeq(descendants(root), LAMBDA n : IsTag(n) /\ n.name = name)
    IN IF hits = <<>> THEN None ELSE Some(hits[1])

\* soup.find(name, {"class": cls})
soup_find_class(root, name, cls) ==
    LET hits == SelectSeq(descendants(root),
                          LAMBDA n : IsTag(n) /\ n.name = name /\ cls \in n.class)
    IN IF hits = <<>> THEN None ELSE Some(hits[1])

\* the strings tag.get_text walks: every NavigableString below the tag
all_strings(tag) ==
    LET leaves == SelectSeq(descendants(tag), IsNavigableString)
    IN [k \in 1..Len(leaves) |-> leaves[k].string]

RECURSIVE strip_each(_)
strip_each(ss) ==
    IF ss = <<>> THEN <<>>
    ELSE LET t == strip(Head(ss))
         IN (IF t = <<>> THEN <<>> ELSE <<t>>) \o strip_each(Tail(ss))

\* tag.get_text(sep, strip=do_strip)
get_text(tag, sep, do_strip) ==
    join(sep, IF do_strip THEN strip_each(all_strings(tag)) ELSE all_strings(tag))

----------------------------------------------------------------------------
(* HTML -> Markdown conversion                                             *)

\* f"[{inner}]({href})" if href else inner, href = node.get("href")
LinkNoTruthTest(inner, href) ==
    IF href # <<>> THEN <<"[">> \o inner \o <<"]", "(">> \o href[1] \o <<")">> ELSE inner

render_link(inner, href) ==
    IF href # <<>> /\ href[1] # <<>>
    THEN <<"[">> \o inner \o <<"]", "(">> \o href[1] \o <<")">>
    ELSE inner

RECURSIVE convert_inline(_, _)
RECURSIVE convert_inline_all(_, _)
\* parent is node.parent.name
convert_inline(n, parent) ==
    IF IsNavigableString(n) THEN n.string
    ELSE IF ~IsTag(n) THEN <<>>
    ELSE IF n.name = "sup" /\ "reference" \in n.class THEN <<>>
    ELSE IF n.name = "span" /\ ("mw-editsection" \in n.class
                                \/ "mw-editsection-visualeditor" \in n.class) THEN <<>>
    ELSE LET inner == convert_inline_all(n.children, n.name)
         IN IF n.name \in {"b", "strong"} THEN <<"**">> \o inner \o <<"**">>
            ELSE IF n.name \in {"i", "em"} THEN <<"*">> \o inner \o <<"*">>
            ELSE IF n.name = "code" /\ parent # "pre" THEN <<backtick>> \o inner \o <<backtick>>
            ELSE IF n.name = "a" THEN render_link(inner, n.href)
            ELSE inner

\* "".join(convert_inline(child) for child in children)
convert_inline_all(children, parent) ==
    IF children = <<>> THEN <<>>
    ELSE convert_inline(Head(children), parent) \o convert_inline_all(Tail(children), parent)

\* int(tag.name[1])
heading_digit(name) ==
    CASE name = "h1" -> 1 [] name = "h2" -> 2 [] name = "h3" -> 3
      [] name = "h4" -> 4 [] name = "h5" -> 5 [] name = "h6" -> 6

\* the text convert_heading puts on the heading line
heading_inline_text(tag) == strip(convert_inline_all(tag.children, tag.name))

convert_heading(tag) ==
    LET text == heading_inline_text(tag)
        level == Max(1, Min(6, heading_digit(tag.name)))
    IN IF text = <<>> THEN <<>>
       ELSE <<repeat("#", level) \o <<" ">> \o text, <<>>>>

convert_paragraph(tag) ==
    LET text == strip(convert_inline_all(tag.children, tag.name))
    IN IF text # <<>> THEN <<text, <<>>>> ELSE <<>>

IsListTag(n) == IsTag(n) /\ n.name \in {"ul", "ol"}

NextIndentUnclamped(indent) == indent + 1

\* next_indent = min(indent + 1, 2)
next_indent(indent) == Min(indent + 1, 2)

RECURSIVE convert_list(_, _, _)
RECURSIVE convert_list_items(_, _, _, _)
RECURSIVE convert_sub_lists(_, _)
convert_list(tag, indent, ordered) ==
    LET lis == SelectSeq(tag.children, LAMBDA c : IsTag(c) /\ c.name = "li")
        ls == convert_list_items(lis, 1, indent, ordered)
    IN IF ls # <<>> THEN Append(ls, <<>>) ELSE ls

\* the body of "for li in ...", for the items from position index on
convert_list_items(lis, index, indent, ordered) ==
    IF lis = <<>> THEN <<>>
    ELSE LET li == Head(lis)
             sub_lists == SelectSeq(li.children, IsListTag)
             inline_children == SelectSeq(li.children, LAMBDA c : ~IsListTag(c))
             item_text == strip(convert_inline_all(inline_children, li.name))
             marker == IF ordered THEN <<ToString(index), ".">> ELSE <<"-">>
             own == IF item_text # <<>>
                    THEN <<repeat(" ", 2 * indent) \o marker \o <<" ">> \o item_text>>
                    ELSE <<>>
         IN own \o convert_sub_lists(sub_lists, indent)
                \o convert_list_items(Tail(lis), index + 1, indent, ordered)

convert_sub_lists(subs, indent) ==
    IF subs = <<>> THEN <<>>
    ELSE convert_list(Head(subs), next_indent(indent), Head(subs).name = "ol")
         \o convert_sub_lists(Tail(subs), indent)

convert_blockquote(tag) ==
    LET text == strip(convert_inline_all(tag.children, tag.name))
        kept == SelectSeq(splitlines(text), LAMBDA l : strip(l) # <<>>)
    IN IF text = <<>> THEN <<>>
       ELSE Append([k \in 1..Len(kept) |-> <<">", " ">> \o strip(kept[k])], <<>>)

convert_code_block(tag) ==
    LET content == rstrip_newlines(get_text(tag, <<"\n">>, FALSE))
    IN <<fence, content, fence, <<>>>>

----------------------------------------------------------------------------
(* html_to_markdown                                                        *)

SKIP_SECTIONS == {<<"References">>, <<"External", " ", "links">>, <<"See", " ", "also">>,
                  <<"Further", " ", "reading">>, <<"Notes">>}

SKIP_CLASSES == {"infobox", "navbox", "vertical-navbox", "hatnote", "metadata",
                 "mwe-math-element", "sidebar"}

\* date.isoformat(), a date being <<year, month, day>>
two_digits(n) == IF n < 10 THEN <<"0", ToString(n)>> ELSE <<ToString(n)>>
isoformat(d) == <<ToString(d[1]), "-">> \o two_digits(d[2]) \o <<"-">> \o two_digits(d[3])

separator == <<"-", "-", "-">>

\* title_tag = soup.find("h1")
TitleTagInContentOnly(root) ==
    LET content == soup_find_class(root, "div", "mw-parser-output")
        hits == SelectSeq(content[1].children, LAMBDA n : IsTag(n) /\ n.name = "h1")
    IN IF content = None \/ hits = <<>> THEN None ELSE Some(hits[1])

title_tag(root) == soup_find(root, "h1")

\* article_title = title_tag.get_text(strip=True) if title_tag else csv_title
article_title(root, title) ==
    IF title_tag(root) # None THEN get_text(title_tag(root)[1], <<>>, TRUE) ELSE title

FrontmatterUnclosed(title, u, d, shown_title) ==
    << separator,
       <<"title", ":", " ">> \o title,
       <<"url", ":", " ">> \o u,
       <<"download_date", ":", " ">> \o isoformat(d),
       <<>>,
       <<"#", " ">> \o shown_title,
       <<>> >>

\* the initial value of lines: the YAML frontmatter and the title line
frontmatter(title, u, d, shown_title) ==
    << separator,
       <<"title", ":", " ">> \o title,
       <<"url", ":", " ">> \o u,
       <<"download_date", ":", " ">> \o isoformat(d),
       separator,
       <<>>,
       <<"#", " ">> \o shown_title,
       <<>> >>

\* the checks of the loop body that skip a child whatever the flag is
is_skipped_node(child) ==
    \/ ~IsTag(child)
    \/ child.name \in {"table", "figure", "img", "style", "script"}
    \/ child.name = "div" /\ child.id = <<"toc">>
    \/ child.class \cap SKIP_CLASSES # {}

\* heading_text = child.get_text(" ", strip=True)
heading_text(child) == get_text(child, <<" ">>, TRUE)

IgnoreNeverReset(child, ignore) ==
    IF is_skipped_node(child) THEN ignore
    ELSE IF child.name = "h2" THEN ignore \/ heading_text(child) \in SKIP_SECTIONS
    ELSE ignore

IgnoreToggledBySkippedNodes(child, ignore) ==
    IF IsTag(child) /\ child.name = "h2" THEN heading_text(child) \in SKIP_SECTIONS
    ELSE ignore

\* the value of ignore_section after the loop body has run on child
ignore_after(child, ignore) ==
    IF is_skipped_node(child) THEN ignore
    ELSE IF child.name = "h2" THEN heading_text(child) \in SKIP_SECTIONS
    ELSE ignore

\* the dispatch to the block converters
convert_block(child) ==
    IF child.name \in {"h2", "h3", "h4", "h5", "h6"} THEN convert_heading(child)
    ELSE IF child.name = "p" THEN convert_paragraph(child)
    ELSE IF child.name \in {"ul", "ol"} THEN convert_list(child, 0, child.name = "ol")
    ELSE IF child.name = "pre" THEN convert_code_block(child)
    ELSE IF child.name = "blockquote" THEN convert_blockquote(child)
    ELSE <<>>

\* one iteration of "for child in content.children"
loop_body(st, child) ==
    LET ig == ignore_after(child, st.ignore_section)
    IN [ignore_section |-> ig,
        lines |-> IF is_skipped_node(child) \/ ig THEN st.lines
                  ELSE st.lines \o convert_block(child)]

RECURSIVE loop_over(_, _)
loop_over(st, children) ==
    IF children = <<>> THEN st ELSE loop_over(loop_body(st, Head(children)), Tail(children))

\* "\n".join(lines).rstrip() + "\n"
final_text(ls) == rstrip(join(<<"\n">>, ls)) \o <<"\n">>

\* the whole function, None when the content container is missing
html_to_markdown(root, title, u, d) ==
    LET content == soup_find_class(root, "div", "mw-parser-output")
        st0 == [ignore_section |-> FALSE,
                lines |-> frontmatter(title, u, d, article_title(root, title))]
    IN IF content = None THEN None
       ELSE Some(final_text(loop_over(st0, content[1].children).lines))

----------------------------------------------------------------------------
(* diffcheck.parse_frontmatter                                             *)

\* mapping.get(key) for a mapping filled in the order of pairs
RECURSIVE mapping_get(_, _)
mapping_get(pairs, key) ==
    IF pairs = <<>> THEN None
    ELSE IF pairs[Len(pairs)][1] = key THEN Some(pairs[Len(pairs)][2])
    ELSE mapping_get(SubSeq(pairs, 1, Len(pairs) - 1), key)

SplitAtLastColon(stripped) ==
    LET k == CHOOSE k \in 1..Len(stripped) :
                 stripped[k] = ":" /\ \A j \in (k + 1)..Len(stripped) : stripped[j] # ":"
    IN <<strip(SubSeq(stripped, 1, k - 1)), strip(SubSeq(stripped, k + 1, Len(stripped)))>>

\* key, value = stripped.split(":", 1), both stripped
key_value(stripped) ==
    LET kv == split_colon_once(stripped) IN <<strip(kv[1]), strip(kv[2])>>

RECURSIVE mapping_of(_)
mapping_of(ls) ==
    IF ls = <<>> THEN <<>>
    ELSE LET stripped == strip(Head(ls))
         IN (IF stripped = <<>> \/ find(stripped, ":") = 0 THEN <<>>
             ELSE <<key_value(stripped)>>) \o mapping_of(Tail(ls))

parse_frontmatter(text) ==
    LET ls == splitlines(text)
        ends == {i \in 2..Len(ls) : strip(ls[i]) = separator}
        end_index == CHOOSE i \in ends : \A j \in ends : i <= j
        mapping == mapping_of(SubSeq(ls, 2, end_index - 1))
    IN IF ls = <<>> \/ strip(ls[1]) # separator THEN <<None, None>>
       ELSE IF ends = {} THEN <<None, None>>
       ELSE <<mapping_get(mapping, <<"title">>), mapping_get(mapping, <<"url">>)>>

----------------------------------------------------------------------------
(* The pages the conversion is run on                                      *)

MaxSiblings == 2

P(text) == Tag("p", {}, <<Str(text)>>)
H(name, text) == Tag(name, {}, <<Str(text)>>)
EditSection == Tag("span", {"mw-editsection"}, <<Str(<<"[", "edit", "]">>)>>)
Reference == Tag("sup", {"reference"}, <<Str(<<"[", "1", "]">>)>>)

H2References == H("h2", <<"References">>)
H2SeeAlso == H("h2", <<"See", " ", "also">>)
H2History == H("h2", <<"History">>)
H2ReferencesEdit == Tag("h2", {}, <<Str(<<"References">>), EditSection>>)
H2HistoryEdit == Tag("h2", {}, <<Str(<<"History">>), EditSection>>)
H2BoldNotes == Tag("h2", {}, <<Tag("b", {}, <<Str(<<"Notes">>)>>)>>)
H2Blank == H("h2", <<" ">>)
H2MetadataReferences == Tag("h2", {"metadata"}, <<Str(<<"References">>)>>)
H2MetadataHistory == Tag("h2", {"metadata"}, <<Str(<<"History">>)>>)
H3Notes == H("h3", <<"Notes">>)
PKept == P(<<"kept">>)
PReferenceOnly == Tag("p", {}, <<Str(<<" ">>), Reference>>)
PHatnote == Tag("p", {"hatnote"}, <<Str(<<"see">>)>>)
Table == Tag("table", {}, <<Str(<<"cell">>)>>)
Toc == TagId("div", "toc", <<Str(<<"Contents">>)>>)
Div == Tag("div", {}, <<Str(<<"box">>)>>)
DivH1 == Tag("div", {}, <<H("h1", <<"Nested">>)>>)
H1Top == H("h1", <<"Top">>)
Newline == Str(<<"\n">>)
Li(text) == Tag("li", {}, <<Str(text)>>)
UlXY == Tag("ul", {}, <<Li(<<"x">>), Li(<<"y">>)>>)
Pre == Tag("pre", {}, <<Tag("code", {}, <<Str(<<"a", "\n", "b", "\n">>)>>)>>)
Blockquote == Tag("blockquote", {}, <<Str(<<"q", "\n", " ", "r">>)>>)

\* top-level children of the content container
Pool == {H2References, H2SeeAlso, H2History, H2ReferencesEdit, H2HistoryEdit, H2BoldNotes,
         H2Blank, H2MetadataReferences, H2MetadataHistory, H3Notes, PKept, PReferenceOnly,
         PHatnote, Table, Toc, Div, DivH1, H1Top, Newline, UlXY, Pre, Blockquote}

RECURSIVE SeqsUpTo(_, _)
SeqsUpTo(S, n) ==
    IF n = 0 THEN {<<>>}
    ELSE LET shorter == SeqsUpTo(S, n - 1)
         IN shorter \cup {Append(q, x) : q \in shorter, x \in S}

Document(children) == Tag("[document]", {}, children)
Content(children) == Tag("div", {"mw-parser-output"}, children)
FirstHeading == TagId("h1", "firstHeading", <<Str(<<"Python">>), Str(<<" ">>), Str(<<"(language)">>)>>)

\* the example of the specification's section 8, and a page in Wikipedia's layout
SuppressionExample ==
    <<H2References, P(<<"ignored">>), H2SeeAlso, P(<<"ignored2">>), H2History, PKept>>

OverviewExample ==
    <<H("h2", <<"Overview">>),
      Tag("p", {}, <<Str(<<"A", " ">>), Tag("strong", {}, <<Str(<<"legacy">>)>>),
                     Str(<<" ", "system">>)>>),
      UlXY>>

ExampleSoups ==
    {Document(<<Content(SuppressionExample)>>),
     Document(<<Tag("div", {}, <<FirstHeading>>), Content(OverviewExample)>>),
     Document(<<Tag("div", {}, <<FirstHeading>>), Content(<<H2ReferencesEdit, PKept>>)>>),
     Document(<<Tag("div", {}, <<H("h1", <<" ">>)>>), Content(<<>>)>>)}

\* pages without the content container
BareSoups == {Document(<<>>), Document(<<Tag("div", {}, <<H2History, PKept>>)>>),
              Document(<<FirstHeading>>)}

FilterSoups ==
    {Document(<<Content(cs)>>) : cs \in SeqsUpTo(Pool, MaxSiblings)}
        \cup ExampleSoups \cup BareSoups

FilterTitles == {<<"Python">>, <<>>}

----------------------------------------------------------------------------
(* html_to_markdown, one child of the content container at a time          *)

content_of(root) == soup_find_class(root, "div", "mw-parser-output")

InitFilter ==
    /\ pc = "start"
    /\ soup \in FilterSoups
    /\ csv_title \in FilterTitles
    /\ url = <<"https", ":", "//", "en.wikipedia.org", "/", "wiki", "/", "Python">>
    /\ download_date = <<2024, 1, 5>>
    /\ idx = 0
    /\ ignore_section = FALSE
    /\ lines = <<>>
    /\ markdown = None
    /\ stderr = <<>>
    /\ parsed = None /\ node = None /\ rendered = None /\ entries = <<>> /\ pos = 0
    /\ converted = 0 /\ files = <<>> /\ written = <<>> /\ archive = <<>>

\* lines 208-211: the content container is missing
ContentMissing ==
    /\ pc = "start"
    /\ content_of(soup) = None
    /\ stderr' = Append(stderr, "could not find main article content")
    /\ markdown' = None
    /\ pc' = "done"
    /\ UNCHANGED <<soup, csv_title, url, download_date, idx, ignore_section, lines, parsed,
                   node, rendered, entries, pos, converted, files, written, archive>>

\* lines 213-228: the frontmatter, the title line and the flag
StartBody ==
    /\ pc = "start"
    /\ content_of(soup) # None
    /\ lines' = frontmatter(csv_title, url, download_date, article_title(soup, csv_title))
    /\ ignore_section' = FALSE
    /\ idx' = 0
    /\ pc' = "loop"
    /\ UNCHANGED <<soup, csv_title, url, download_date, markdown, parsed, node, rendered,
                   entries, pos, converted, files, written, stderr, archive>>

\* lines 230-265: one iteration of the loop
VisitChild ==
    /\ pc = "loop"
    /\ idx < Len(content_of(soup)[1].children)
    /\ LET st == loop_body([ignore_section |-> ignore_section, lines |-> lines],
                           content_of(soup)[1].children[idx + 1])
       IN /\ ignore_section' = st.ignore_section
          /\ lines' = st.lines
    /\ idx' = idx + 1
    /\ UNCHANGED <<pc, soup, csv_title, url, download_date, markdown, parsed, node, rendered,
                   entries, pos, converted, files, written, stderr, archive>>

\* line 267
ReturnMarkdown ==
    /\ pc = "loop"
    /\ idx = Len(content_of(soup)[1].children)
    /\ markdown' = Some(final_text(lines))
    /\ pc' = "done"
    /\ UNCHANGED <<soup, csv_title, url, download_date, idx, ignore_section, lines, parsed,
                   node, rendered, entries, pos, converted, files, written, stderr, archive>>

NextFilter == ContentMissing \/ StartBody \/ VisitChild \/ ReturnMarkdown

SpecFilter == InitFilter /\ [][NextFilter]_vars

----------------------------------------------------------------------------
(* Claims about the section filter and the assembled document             *)

Children == content_of(soup)[1].children
InBody == pc \in {"loop", "done"} /\ content_of(soup) # None
HeaderLen == 8
Body == SubSeq(lines, HeaderLen + 1, Len(lines))

\* an h2 the filter looks at: one that the tag and class rules let through
IsSectionHeading(c) == IsTag(c) /\ c.name = "h2" /\ ~is_skipped_node(c)
\* the title of such a heading: the text html_to_markdown reads off it
HasBoilerplateTitle(c) == get_text(c, <<" ">>, TRUE) \in SKIP_SECTIONS

\* the filter is suppressing after the first k children: the last section
\* heading among them exists and carries a boilerplate title
Suppressing(k) ==
    \E j \in 1..k :
        /\ IsSectionHeading(Children[j]) /\ HasBoilerplateTitle(Children[j])
        /\ \A i \in (j + 1)..k :
               ~(IsSectionHeading(Children[i]) /\ ~HasBoilerplateTitle(Children[i]))

Survives(k) == ~is_skipped_node(Children[k]) /\ ~Suppressing(k)

RECURSIVE BlocksOfSurvivors(_)
BlocksOfSurvivors(k) ==
    IF k = 0 THEN <<>>
    ELSE BlocksOfSurvivors(k - 1) \o (IF Survives(k) THEN convert_block(Children[k]) ELSE <<>>)

HistoryBlock == <<<<"#", "#", " ", "History">>, <<>>>>
KeptBlock == <<<<"kept">>, <<>>>>

\* C1: whatever the siblings are, a node reached while the filter suppresses adds
\* no line, an h2 with a boilerplate title is not emitted and starts suppression,
\* an h2 with another title ends suppression and goes through the heading
\* renderer; so the body is the blocks of the surviving siblings in order, and
\* for [H2 References, P, H2 See also, P, H2 History, P kept] it is the History
\* heading block followed by the kept paragraph block.
C1_SectionFilter ==
    InBody =>
        /\ ignore_section = Suppressing(idx)
        /\ Body = BlocksOfSurvivors(idx)
        /\ (Children = SuppressionExample /\ pc = "done" => Body = HistoryBlock \o KeptBlock)
        /\ \A k \in 1..idx :
               IsSectionHeading(Children[k]) /\ ~HasBoilerplateTitle(Children[k])
                   => ~Suppressing(k)

C1_Witness ==
    /\ pc = "done" /\ content_of(soup) # None
    /\ Children = SuppressionExample
    /\ markdown # None
    /\ Body = HistoryBlock \o KeptBlock

\* C2: for every h2 the filter looks at, whenever the text the heading renderer
\* would put on the heading line (reference markers and edit-section spans
\* contributing nothing) is a boilerplate title, the filter starts suppressing
\* and the heading is not emitted; "References" followed by an edit-section
\* span starts suppression.
C2_RenderedTextDecides ==
    InBody /\ idx >= 1 /\ IsSectionHeading(Children[idx])
           /\ heading_inline_text(Children[idx]) \in SKIP_SECTIONS
        => ignore_section /\ Body = BlocksOfSurvivors(idx - 1)

ShownTitle == IF Len(lines) = HeaderLen /\ article_title(soup, csv_title) = <<>>
              THEN <<"#">> ELSE <<"#", " ">> \o article_title(soup, csv_title)

\* C4: when the content container is present the document is, line by line, a
\* separator, title, url, download_date, a separator, a blank line and the title
\* line, whatever the body is; a body without lines gives exactly these lines.
C4_HeaderAlwaysPresent ==
    pc = "done" /\ content_of(soup) # None =>
        /\ markdown # None
        /\ LET ls == splitlines(markdown[1])
           IN /\ Len(ls) >= 7
              /\ ls[1] = <<"-", "-", "-">>
              /\ ls[2] = <<"title", ":", " ">> \o csv_title
              /\ ls[3] = <<"url", ":", " ">> \o url
              /\ ls[4] = <<"download_date", ":", " ", "2024", "-", "0", "1", "-", "0", "5">>
              /\ ls[5] = <<"-", "-", "-">>
              /\ ls[6] = <<>>
              /\ ls[7] = ShownTitle
              /\ (Len(lines) = HeaderLen => Len(ls) = 7)
              /\ markdown[1][Len(markdown[1])] = "\n"

C4_Witness ==
    /\ pc = "done" /\ content_of(soup) # None
    /\ Children # <<>>
    /\ Len(lines) = HeaderLen
    /\ Len(splitlines(markdown[1])) = 7

\* the h1 tags of the parsed page, in document order
AllH1 == SelectSeq(descendants(soup), LAMBDA n : IsTag(n) /\ n.name = "h1")
\* the h1 tags among the top-level siblings of the content container
TopLevelH1 == SelectSeq(Children, LAMBDA n : IsTag(n) /\ n.name = "h1")
TitleLine == lines[7]

\* C6 as stated: the title line shows the first top-level h1 when there is one,
\* and the caller's title exactly when there is none.
C6_FirstTopLevelH1 ==
    InBody =>
        TitleLine = <<"#", " ">> \o (IF TopLevelH1 # <<>>
                                     THEN get_text(TopLevelH1[1], <<>>, TRUE)
                                     ELSE csv_title)

\* C6 amended: the title line shows the text of the first h1 of the parsed page
\* in document order, at any depth, inside or outside the content container;
\* the caller's title is shown exactly when the page holds no h1 at all.
C6_FirstH1Anywhere ==
    InBody =>
        TitleLine = <<"#", " ">> \o (IF AllH1 # <<>>
                                     THEN get_text(AllH1[1], <<>>, TRUE)
                                     ELSE csv_title)

C6_Witness ==
    /\ pc = "done" /\ content_of(soup) # None /\ markdown # None
    /\ TopLevelH1 = <<>> /\ AllH1 # <<>>
    /\ csv_title = <<"Python">>
    /\ TitleLine = <<"#", " ", "Python", "(language)">>

\* a child that may change the flag: an h2 that the always-dropped-tag rule
\* and the boilerplate-class rule let through
MayToggle(c) ==
    /\ IsTag(c) /\ c.name = "h2"
    /\ c.name \notin {"table", "figure", "img", "style", "script"}
    /\ c.class \cap SKIP_CLASSES = {}

\* C9: the flag starts false and only the visit of an h2 that is skipped by
\* neither rule changes it; any other child leaves it as it is.
C9_FlagFrame ==
    /\ [](pc = "loop" /\ idx = 0 => ignore_section = FALSE)
    /\ [][pc = "loop" /\ idx' = idx + 1 /\ ~MayToggle(Children[idx + 1])
              => ignore_section' = ignore_section]_vars

C9_Witness ==
    /\ pc = "loop" /\ idx = 2
    /\ Children[1] = H2References /\ Children[2] = H2MetadataHistory
    /\ ignore_section = TRUE

----------------------------------------------------------------------------
(* wikisnap's document read back by diffcheck                              *)

MaxTitleLen == 3
MaxUrlLen == 2

NoOuterSpace(t) == t = <<>> \/ (~IsSpace(t[1]) /\ ~IsSpace(t[Len(t)]))

\* titles and urls as parse_csv delivers them: one line, stripped
HeaderTitles == {t \in SeqsUpTo({"a", ":", " ", "-"}, MaxTitleLen) : NoOuterSpace(t)}
HeaderUrls == {u \in SeqsUpTo({"u", ":", "-"}, MaxUrlLen) : NoOuterSpace(u)}

\* a body that repeats the header's own syntax
HeaderLikeBody ==
    <<P(<<"url", ":", " ", "other">>),
      Tag("pre", {}, <<Str(<<"-", "-", "-", "\n", "title", ":", " ", "other">>)>>),
      P(<<"-", "-", "-">>)>>

HeaderSoups ==
    {Document(<<Content(<<>>)>>),
     Document(<<Tag("div", {}, <<FirstHeading>>), Content(OverviewExample)>>),
     Document(<<Content(HeaderLikeBody)>>),
     Document(<<Tag("div", {}, <<PKept>>)>>)}

InitHeader ==
    /\ pc = "start"
    /\ soup \in HeaderSoups
    /\ csv_title \in HeaderTitles
    /\ url \in HeaderUrls
    /\ download_date = <<2024, 12, 31>>
    /\ markdown = None
    /\ parsed = None
    /\ idx = 0 /\ ignore_section = FALSE /\ lines = <<>> /\ stderr = <<>>
    /\ node = None /\ rendered = None /\ entries = <<>> /\ pos = 0
    /\ converted = 0 /\ files = <<>> /\ written = <<>> /\ archive = <<>>

\* wikisnap: markdown = html_to_markdown(html_content, title, url, download_date)
ConvertPage ==
    /\ pc = "start"
    /\ markdown' = html_to_markdown(soup, csv_title, url, download_date)
    /\ pc' = "converted"
    /\ UNCHANGED <<soup, csv_title, url, download_date, idx, ignore_section, lines, parsed,
                   node, rendered, entries, pos, converted, files, written, stderr, archive>>

\* diffcheck: title, url = parse_frontmatter(today_text)
ReadFrontmatter ==
    /\ pc = "converted"
    /\ markdown # None
    /\ parsed' = Some(parse_frontmatter(markdown[1]))
    /\ pc' = "parsed"
    /\ UNCHANGED <<soup, csv_title, url, download_date, idx, ignore_section, lines, markdown,
                   node, rendered, entries, pos, converted, files, written, stderr, archive>>

NextHeader == ConvertPage \/ ReadFrontmatter

SpecHeader == InitHeader /\ [][NextHeader]_vars

\* C5: for every one-line, stripped title and url (a ":" in them included) and
\* every page with a content container, parse_frontmatter of the document that
\* html_to_markdown produced returns exactly (title, url).
C5_HeaderRoundTrip ==
    pc = "parsed" => parsed = Some(<<Some(csv_title), Some(url)>>)

C5_Witness ==
    /\ pc = "parsed"
    /\ csv_title = <<"a", ":", ":">>
    /\ url = <<"u", ":">>
    /\ soup = Document(<<Content(HeaderLikeBody)>>)
    /\ parsed = Some(<<Some(<<"a", ":", ":">>), Some(<<"u", ":">>)>>)

----------------------------------------------------------------------------
(* convert_inline on its own                                               *)

MaxInlineChildren == 2

InlineLeaves ==
    {Str(<<"foo">>), Str(<<" ">>), Tag("b", {}, <<Str(<<"bar">>)>>),
     Tag("em", {}, <<Str(<<"baz">>)>>), Tag("code", {}, <<Str(<<"c">>)>>),
     Reference, EditSection, Tag("span", {}, <<Str(<<"s">>)>>),
     Link(Some(<<"/", "wiki", "/", "Inner">>), <<Str(<<"in">>)>>)}

Hrefs == {None, Some(<<>>), Some(<<"/", "wiki", "/", "Foo">>), Some(<<"#">>), Some(<<" ">>)}

Links == {Link(h, cs) : h \in Hrefs, cs \in SeqsUpTo(InlineLeaves, MaxInlineChildren)}

InlineNodes == Links \cup InlineLeaves \cup {Tag("strong", {}, <<l>>) : l \in Links}

InitInline ==
    /\ pc = "start"
    /\ node \in {Some(n) : n \in InlineNodes}
    /\ rendered = None
    /\ soup = None /\ csv_title = <<>> /\ url = <<>> /\ download_date = <<2024, 1, 5>>
    /\ idx = 0 /\ ignore_section = FALSE /\ lines = <<>> /\ markdown = None
    /\ parsed = None /\ stderr = <<>> /\ entries = <<>> /\ pos = 0
    /\ converted = 0 /\ files = <<>> /\ written = <<>> /\ archive = <<>>

\* convert_inline(node), called for a child of a paragraph
RenderInline ==
    /\ pc = "start"
    /\ rendered' = Some(convert_inline(node[1], "p"))
    /\ pc' = "done"
    /\ UNCHANGED <<soup, csv_title, url, download_date, idx, ignore_section, lines, markdown,
                   parsed, node, entries, pos, converted, files, written, stderr, archive>>

NextInline == RenderInline

SpecInline == InitInline /\ [][NextInline]_vars

IsLink(n) == IsTag(n) /\ n.name = "a"
InnerOf(n) == convert_inline_all(n.children, n.name)

\* C8 as stated: a link with a present href renders as [children](href) for
\* every value of the href, and a link without href as its children alone.
C8_EveryPresentHref ==
    pc = "done" /\ IsLink(node[1]) =>
        rendered[1] = IF node[1].href # None
                      THEN <<"[">> \o InnerOf(node[1]) \o <<"]", "(">> \o node[1].href[1] \o <<")">>
                      ELSE InnerOf(node[1])

\* C8 amended: a link whose href is present and not the empty string renders
\* as [children](href); a link whose href is missing or empty renders as its
\* children alone, without bracket or parenthesis (text "foo" gives "foo").
C8_NonEmptyHref ==
    pc = "done" /\ IsLink(node[1]) =>
        /\ rendered[1] = IF node[1].href # None /\ node[1].href[1] # <<>>
                         THEN <<"[">> \o InnerOf(node[1]) \o <<"]", "(">>
                                  \o node[1].href[1] \o <<")">>
                         ELSE InnerOf(node[1])
        /\ (node[1] = Link(None, <<Str(<<"foo">>)>>) => rendered[1] = <<"foo">>)

C8_Witness ==
    /\ pc = "done"
    /\ node[1] = Link(Some(<<"/", "wiki", "/", "Foo">>), <<Str(<<"foo">>)>>)
    /\ rendered[1] = <<"[", "foo", "]", "(", "/", "wiki", "/", "Foo", ")">>

----------------------------------------------------------------------------
(* convert_list on its own                                                 *)

MaxListDepth == 4

\* lists of one item per level, nested up to d levels below the top-level list
RECURSIVE Lists(_)
Lists(d) ==
    {Tag(t, {}, <<Tag("li", {}, txt \o sub)>>) :
        t \in {"ul", "ol"},
        txt \in {<<>>, <<Str(<<"x">>)>>},
        sub \in {<<>>} \cup (IF d = 0 THEN {} ELSE {<<l>> : l \in Lists(d - 1)})}

Ul(items) == Tag("ul", {}, items)
Ol(items) == Tag("ol", {}, items)
Item(children) == Tag("li", {}, children)

\* lists with several items, several nested lists in one item, text after a
\* nested list, an empty item, a list that is no child of an item, a list
\* inside an inline element, and an item text that spans two lines
WideLists ==
    {Ol(<<Li(<<"a">>), Li(<<" ">>), Li(<<"c">>)>>),
     Ul(<<Item(<<Str(<<"a">>), Ul(<<Li(<<"b">>)>>), Ol(<<Li(<<"c">>), Li(<<"d">>)>>),
                 Str(<<"e">>)>>),
          Li(<<"f">>)>>),
     Ul(<<Ul(<<Li(<<"lost">>)>>), Li(<<"a">>)>>),
     Ul(<<Item(<<Tag("span", {}, <<Ul(<<Li(<<"inl">>)>>)>>)>>)>>),
     Ul(<<Item(<<Str(<<"a", "\n", " ", " ", " ", " ", " ", " ", "b">>),
                 Ol(<<Item(<<Ul(<<Item(<<Str(<<"deep">>), Ul(<<Li(<<"deeper">>)>>)>>)>>)>>)>>)>>)>>)}

ListTrees == Lists(MaxListDepth) \cup WideLists

InitList ==
    /\ pc = "start"
    /\ node \in {Some(l) : l \in ListTrees}
    /\ lines = <<>>
    /\ rendered = None
    /\ soup = None /\ csv_title = <<>> /\ url = <<>> /\ download_date = <<2024, 1, 5>>
    /\ idx = 0 /\ ignore_section = FALSE /\ markdown = None
    /\ parsed = None /\ stderr = <<>> /\ entries = <<>> /\ pos = 0
    /\ converted = 0 /\ files = <<>> /\ written = <<>> /\ archive = <<>>

\* lines.extend(convert_list(child, ordered=(child.name == "ol")))
RenderList ==
    /\ pc = "start"
    /\ lines' = convert_list(node[1], 0, node[1].name = "ol")
    /\ pc' = "done"
    /\ UNCHANGED <<soup, csv_title, url, download_date, idx, ignore_section, markdown, parsed,
                   node, rendered, entries, pos, converted, files, written, stderr, archive>>

NextList == RenderList

SpecList == InitList /\ [][NextList]_vars

\* the nesting depths of the items that have a text, in document order
RECURSIVE ItemDepths(_, _)
RECURSIVE ItemDepthsOfItems(_, _)
RECURSIVE ItemDepthsOfLists(_, _)
ItemDepths(list, d) ==
    ItemDepthsOfItems(SelectSeq(list.children, LAMBDA c : IsTag(c) /\ c.name = "li"), d)
ItemDepthsOfItems(items, d) ==
    IF items = <<>> THEN <<>>
    ELSE LET li == Head(items)
             text == strip(convert_inline_all(SelectSeq(li.children,
                                                        LAMBDA c : ~IsListTag(c)), "li"))
         IN (IF text # <<>> THEN <<d>> ELSE <<>>)
            \o ItemDepthsOfLists(SelectSeq(li.children, IsListTag), d + 1)
            \o ItemDepthsOfItems(Tail(items), d)
ItemDepthsOfLists(ls, d) ==
    IF ls = <<>> THEN <<>> ELSE ItemDepths(Head(ls), d) \o ItemDepthsOfLists(Tail(ls), d)

RECURSIVE LeadingSpaces(_)
LeadingSpaces(l) == IF l # <<>> /\ Head(l) = " " THEN 1 + LeadingSpaces(Tail(l)) ELSE 0

ItemLines == SelectSeq(lines, LAMBDA l : l # <<>>)

\* C7: every item line of a list at nesting depth d starts with exactly
\* 2 * min(d, 2) spaces, so the items at depth 2 and deeper share the indent
\* of four spaces and no line is indented by more.
C7_ListDepthClamp ==
    pc = "done" =>
        LET depths == ItemDepths(node[1], 0)
        IN /\ Len(ItemLines) = Len(depths)
           /\ \A k \in 1..Len(ItemLines) :
                  /\ LeadingSpaces(ItemLines[k]) = 2 * Min(depths[k], 2)
                  /\ LeadingSpaces(ItemLines[k]) <= 4

DeepChain ==
    Ul(<<Item(<<Str(<<"x">>), Ul(<<Item(<<Str(<<"x">>), Ul(<<Item(<<Str(<<"x">>),
         Ul(<<Item(<<Str(<<"x">>)>>)>>)>>)>>)>>)>>)>>)>>)

C7_Witness ==
    /\ pc = "done"
    /\ node[1] = DeepChain
    /\ ItemLines = << <<"-", " ", "x">>,
                      <<" ", " ", "-", " ", "x">>,
                      <<" ", " ", " ", " ", "-", " ", "x">>,
                      <<" ", " ", " ", " ", "-", " ", "x">> >>

----------------------------------------------------------------------------
(* main: the batch loop and the archive                                    *)

MaxEntries == 3

\* str.lower and str.isalnum on the characters the titles below are made of
lower(ch) == CASE ch = "A" -> "a" [] ch = "B" -> "b" [] ch = "P" -> "p" [] OTHER -> ch
isalnum(ch) == ch \in {"a", "b", "p", "A", "B", "P", "0", "1"}

\* s.split()
RECURSIVE split_whitespace(_)
split_whitespace(s) ==
    LET t == lstrip(s)
        ends == {k \in 1..Len(t) : IsSpace(t[k])}
        k == IF ends = {} THEN Len(t) + 1 ELSE CHOOSE i \in ends : \A j \in ends : i <= j
    IN IF t = <<>> THEN <<>>
       ELSE <<SubSeq(t, 1, k - 1)>> \o split_whitespace(SubSeq(t, k, Len(t)))

sanitize_title(title) ==
    LET lowered == [k \in 1..Len(title) |-> lower(title[k])]
        cleaned == [k \in 1..Len(title) |-> IF isalnum(lowered[k]) THEN lowered[k] ELSE " "]
        parts == split_whitespace(cleaned)
    IN IF parts # <<>> THEN join(<<"_">>, parts)
       ELSE <<"u", "n", "t", "i", "t", "l", "e", "d">>

UrlPython == <<"file", ":", "//", "/", "pages", "/", "python.html">>
UrlHistory == <<"file", ":", "//", "/", "pages", "/", "history.html">>
UrlBare == <<"file", ":", "//", "/", "pages", "/", "bare.html">>
UrlMissing == <<"file", ":", "//", "/", "pages", "/", "missing.html">>

\* hashlib.md5(url.encode("utf-8")).hexdigest()[:8], for the four urls above
url_hash(u) ==
    CASE u = UrlPython -> <<"4393d837">>
      [] u = UrlHistory -> <<"3fc9f293">>
      [] u = UrlBare -> <<"8313911b">>
      [] u = UrlMissing -> <<"f6a255c0">>

\* filename = sanitize_title(title) + "_" + url_hash(url) + ".md"
filename_of(title, u) == sanitize_title(title) \o <<"_">> \o url_hash(u) \o <<".md">>

\* fetch_content followed by the parse: what is stored under each url; the
\* page of UrlBare has no content container, UrlMissing cannot be read
fetch_content(u) ==
    CASE u = UrlPython ->
             Some(Document(<<Tag("div", {}, <<FirstHeading>>), Content(OverviewExample)>>))
      [] u = UrlHistory -> Some(Document(<<Content(SuppressionExample)>>))
      [] u = UrlBare -> Some(Document(<<Tag("div", {}, <<H2History, PKept>>)>>))
      [] u = UrlMissing -> None

today == <<2024, 6, 1>>
Past == <<2024, 1, 5>>
Future == <<2025, 1, 1>>

\* download_date > today
date_after(a, b) ==
    \/ a[1] > b[1]
    \/ a[1] = b[1] /\ a[2] > b[2]
    \/ a[1] = b[1] /\ a[2] = b[2] /\ a[3] > b[3]

Entry(title, u, d) == [title |-> title, url |-> u, download_date |-> d]

\* rows of the CSV, as parse_csv returns them
EntryPool ==
    {Entry(<<"A", " ", "b">>, UrlPython, Past),
     Entry(<<"a", "-", "B">>, UrlPython, Past),
     Entry(<<"P">>, UrlHistory, Past),
     Entry(<<"P">>, UrlBare, Past),
     Entry(<<"b">>, UrlMissing, Past),
     Entry(<<"A">>, UrlPython, Future),
     Entry(<<"!">>, UrlHistory, Past)}

Batches == SeqsUpTo(EntryPool, MaxEntries) \ {<<>>}

InitBatch ==
    /\ pc = "loop"
    /\ entries \in Batches
    /\ pos = 0
    /\ converted = 0
    /\ files = {}
    /\ written = <<>>
    /\ stderr = <<>>
    /\ archive = {}
    /\ soup = None /\ csv_title = <<>> /\ url = <<>> /\ download_date = Past
    /\ idx = 0 /\ ignore_section = FALSE /\ lines = <<>> /\ markdown = None
    /\ parsed = None /\ node = None /\ rendered = None

current == entries[pos + 1]

\* html_to_markdown(html_content, title, url, download_date) for each row whose
\* page can be read, computed once per row
markdown_of ==
    [e \in EntryPool |->
        IF fetch_content(e.url) = None THEN None
        ELSE html_to_markdown(fetch_content(e.url)[1], e.title, e.url, e.download_date)]

current_markdown == markdown_of[current]

AbortBatch(p, n) == n

\* "continue": the loop goes on with the entry after the one at position p
after_continue(p, n) == p + 1

\* lines 348-350
SkipFutureDate ==
    /\ pc = "loop" /\ pos < Len(entries)
    /\ date_after(current.download_date, today)
    /\ pos' = after_continue(pos, Len(entries))
    /\ UNCHANGED <<pc, soup, csv_title, url, download_date, idx, ignore_section, lines,
                   markdown, parsed, node, rendered, entries, converted, files, written,
                   stderr, archive>>

\* lines 353-355
FetchFails ==
    /\ pc = "loop" /\ pos < Len(entries)
    /\ ~date_after(current.download_date, today)
    /\ fetch_content(current.url) = None
    /\ stderr' = Append(stderr, "failed to read local file")
    /\ pos' = after_continue(pos, Len(entries))
    /\ UNCHANGED <<pc, soup, csv_title, url, download_date, idx, ignore_section, lines,
                   markdown, parsed, node, rendered, entries, converted, files, written,
                   archive>>

\* lines 357-359, with the message html_to_markdown prints at line 210
ConversionFails ==
    /\ pc = "loop" /\ pos < Len(entries)
    /\ ~date_after(current.download_date, today)
    /\ fetch_content(current.url) # None
    /\ current_markdown = None
    /\ stderr' = Append(stderr, "could not find main article content")
    /\ pos' = after_continue(pos, Len(entries))
    /\ UNCHANGED <<pc, soup, csv_title, url, download_date, idx, ignore_section, lines,
                   markdown, parsed, node, rendered, entries, converted, files, written,
                   archive>>

\* md_path.write_text(markdown): the file holds exactly the new text
write_text(fs, name, text) == {f \in fs : f[1] # name} \cup {<<name, text>>}

\* lines 361-366: the document is written
WriteDocument ==
    /\ pc = "loop" /\ pos < Len(entries)
    /\ ~date_after(current.download_date, today)
    /\ fetch_content(current.url) # None
    /\ current_markdown # None
    /\ LET filename == filename_of(current.title, current.url)
       IN /\ files' = write_text(files, filename, current_markdown[1])
          /\ written' = Append(written, [entry |-> pos + 1, filename |-> filename,
                                         markdown |-> current_markdown[1], ok |-> TRUE])
    /\ converted' = converted + 1
    /\ pos' = pos + 1
    /\ UNCHANGED <<pc, soup, csv_title, url, download_date, idx, ignore_section, lines,
                   markdown, parsed, node, rendered, entries, stderr, archive>>

\* lines 363-368: write_text raises, before the file is created or after it
\* was opened (and so emptied)
WriteFails ==
    /\ pc = "loop" /\ pos < Len(entries)
    /\ ~date_after(current.download_date, today)
    /\ fetch_content(current.url) # None
    /\ current_markdown # None
    /\ LET filename == filename_of(current.title, current.url)
       IN /\ \/ files' = files
             \/ files' = write_text(files, filename, <<>>)
          /\ written' = Append(written, [entry |-> pos + 1, filename |-> filename,
                                         markdown |-> current_markdown[1], ok |-> FALSE])
    /\ stderr' = Append(stderr, "failed to write")
    /\ pos' = pos + 1
    /\ UNCHANGED <<pc, soup, csv_title, url, download_date, idx, ignore_section, lines,
                   markdown, parsed, node, rendered, entries, converted, archive>>

\* lines 370-386: the archive of every .md file of the temporary directory
CreateArchive ==
    /\ pc = "loop" /\ pos = Len(entries)
    /\ stderr' = IF converted = 0 THEN Append(stderr, "no pages were converted") ELSE stderr
    /\ archive' = {f[1] : f \in files}
    /\ pc' = "done"
    /\ UNCHANGED <<soup, csv_title, url, download_date, idx, ignore_section, lines, markdown,
                   parsed, node, rendered, entries, pos, converted, files, written>>

\* lines 381-383: tarfile raises, EXIT_ARCHIVE_ERROR
ArchiveFails ==
    /\ pc = "loop" /\ pos = Len(entries)
    /\ stderr' = (IF converted = 0 THEN Append(stderr, "no pages were converted") ELSE stderr)
                     \o <<"failed to create archive">>
    /\ pc' = "exit3"
    /\ UNCHANGED <<soup, csv_title, url, download_date, idx, ignore_section, lines, markdown,
                   parsed, node, rendered, entries, pos, converted, files, written, archive>>

NextBatch == SkipFutureDate \/ FetchFails \/ ConversionFails \/ WriteDocument \/ WriteFails
                 \/ CreateArchive \/ ArchiveFails

SpecBatch == InitBatch /\ [][NextBatch]_vars

----------------------------------------------------------------------------
(* Claims about the batch loop                                             *)

LoopOver == pc \in {"done", "exit3"}

Reaches(e) == ~date_after(e.download_date, today) /\ fetch_content(e.url) # None
DocumentOf(e) == markdown_of[e]
\* the entry's page was read and holds no content container
LacksContainer(e) == Reaches(e) /\ DocumentOf(e) = None

\* the documents a batch yields when nothing stops it, one entry after the other
RECURSIVE DocumentsOf(_)
DocumentsOf(es) ==
    IF es = <<>> THEN <<>>
    ELSE (IF Reaches(Head(es)) /\ DocumentOf(Head(es)) # None
          THEN <<DocumentOf(Head(es))[1]>> ELSE <<>>) \o DocumentsOf(Tail(es))

Produced == [k \in 1..Len(written) |-> written[k].markdown]
ContentNotFound == SelectSeq(stderr, LAMBDA m : m = "could not find main article content")
Failing == {k \in 1..Len(entries) : LacksContainer(entries[k])}

\* C3: an entry whose page lacks the content container yields no document and
\* does not stop the loop; the documents of the batch are those of the batch
\* without the failing entries, and each failure is reported once.  With three
\* pages of which only the second lacks the container, the documents are those
\* of pages 1 and 3 and one failure is reported.
C3_FaultIsolation ==
    LoopOver =>
        /\ pos = Len(entries)
        /\ Produced = DocumentsOf(SelectSeq(entries, LAMBDA e : ~LacksContainer(e)))
        /\ \A k \in 1..Len(written) : written[k].entry \notin Failing
        /\ Len(ContentNotFound) = Cardinality(Failing)
        /\ (Len(entries) = 3 /\ Failing = {2}
                /\ Reaches(entries[1]) /\ Reaches(entries[3])
              => /\ Len(written) = 2
                 /\ written[1].entry = 1 /\ written[2].entry = 3
                 /\ Produced = <<DocumentOf(entries[1])[1], DocumentOf(entries[3])[1]>>
                 /\ Len(ContentNotFound) = 1)

C3_Witness ==
    /\ pc = "done"
    /\ entries = <<Entry(<<"A", " ", "b">>, UrlPython, Past),
                   Entry(<<"P">>, UrlBare, Past),
                   Entry(<<"P">>, UrlHistory, Past)>>
    /\ Len(written) = 2
    /\ converted = 2
    /\ stderr = <<"could not find main article content">>

\* C10: when the archive has been created after a batch whose writes all
\* succeeded, the number of .md files in it is the value of the converted
\* counter, and no document that was written is overwritten by a later entry
\* of the batch.
C10_OneFilePerConvertedPage ==
    pc = "done" /\ (\A k \in 1..Len(written) : written[k].ok) =>
        /\ Cardinality(archive) = converted
        /\ \A i, j \in 1..Len(written) :
               i < j /\ written[i].ok => written[j].filename # written[i].filename

====
